---- MODULE Spec2Model ----
(***************************************************************************)
(* Model of src/script.js: the ThemeManager (theme resolution,            *)
(* persistence, toggle-widget synchronisation, OS colour-scheme listener), *)
(* the Ctrl/Cmd+D shortcut of KeyboardNavigation, the DOMContentLoaded     *)
(* bootstrap with its try/catch, and the cosmetic handlers that share the  *)
(* page (toggle animation timers, navbar scroll shadow, button ripples).   *)
(*                                                                         *)
(* Every event handler runs to completion, so each handler is one action.  *)
(***************************************************************************)
EXTENDS Integers, FiniteSets, Sequences, TLC

VARIABLES
    pc,                     \* "load" before DOMContentLoaded, then "ready" or "failed"
    storageMode,            \* "ok", "getThrows" (every access throws), "setThrows"
    togglePresent,          \* whether #darkModeToggle exists (line 15)
    osDark,                 \* matchMedia('(prefers-color-scheme: dark)').matches
    stored,                 \* localStorage entry 'theme' (Null when absent)
    dataTheme,              \* data-theme attribute of the document root
    currentTheme,           \* ThemeManager.currentTheme
    checked,                \* darkModeToggle.checked
    ariaLabel,              \* darkModeToggle aria-label
    labelScale,             \* .theme-toggle-label style.transform
    scaleTimers,            \* pending 150ms timers of addToggleAnimation
    ripples,                \* ripple elements attached to the label
    rippleTimers,           \* pending 600ms timers of addToggleAnimation
    componentsInitialized,  \* the constructors after ThemeManager ran (lines 908-952)
    navbarShadow,           \* navbar.style.boxShadow is not 'none'
    btnRipples,             \* ripple spans attached to project-card buttons
    initialTheme,           \* history: theme resolved by the constructor
    storedAtLoad,           \* history: storage entry when the page was loaded
    toggles,                \* history: number of toggleTheme() calls
    lastEvent               \* history: the handler that ran last

\* state of the utility functions and of the two carousels
VARIABLES
    now,                    \* the clock setTimeout delays are measured on (ms)
    debTimeout,             \* debounce: the closure variable timeout (line 963), 0 while undefined
    debPending,             \* debounce: pending timers, [id, args, due]
    debNextId,              \* debounce: id the next setTimeout returns
    debLog,                 \* history: invocations of func, [args, at]
    debLastCall,            \* history: the last call of the wrapper, [args, at]
    debBurstOpen,           \* history: a call was made since func last ran
    inThrottle,             \* throttle: the closure variable inThrottle (line 976): "undefined", "true", "false"
    thrPending,             \* throttle: due times of pending timers
    thrLog,                 \* history: times at which func was invoked
    thrDropped,             \* history: number of calls made inside a window
    certReady,              \* CertificateCarouselEffects.init has run
    certItems,              \* number of .carousel-item elements in #certificatesCarousel
    certIndicators,         \* number of .indicator-line elements
    certActive,             \* index of the .carousel-item.active element
    certSliding,            \* index the running transition leads to, -1 when none
    certCycling,            \* the carousel's auto-advance interval is running
    indicatorActive,        \* indices of the indicators carrying the class 'active'
    toRequested,            \* history: index of the last carousel.to(index) call, -1 when none
    indicatorUsed,          \* history: index of the indicator activated last, -1 when none
    modalShown,             \* #certificateModal is shown
    modalContent,           \* image, title, issuer and date shown by the modal
    cyclingAtShow,          \* history: certCycling when bootstrapModal.show() was last called
    startX,                 \* addSwipeSupport: let startX (line 801)
    endX,                   \* addSwipeSupport: let endX (line 802)
    isMouseDown,            \* addSwipeSupport: let isMouseDown (line 814)
    projCalls,              \* history: next()/prev() calls made on the projects carousel
    swipeThrew              \* history: the last handleSwipe() raised an exception

debVars == <<debTimeout, debPending, debNextId, debLog, debLastCall, debBurstOpen>>
thrVars == <<inThrottle, thrPending, thrLog, thrDropped>>
certVars == <<certReady, certItems, certIndicators, certActive, certSliding, certCycling,
              indicatorActive, toRequested, indicatorUsed, modalShown, modalContent, cyclingAtShow>>
swipeVars == <<startX, endX, isMouseDown, projCalls, swipeThrew>>
utilVars == <<now, debVars, thrVars, certVars, swipeVars>>

\* the theme-related state, everything but lastEvent
pageVars == <<pc, storageMode, togglePresent, osDark, stored, dataTheme, currentTheme,
              checked, ariaLabel, labelScale, scaleTimers, ripples, rippleTimers,
              componentsInitialized, navbarShadow, btnRipples, initialTheme, storedAtLoad, toggles>>

vars == <<pageVars, lastEvent, utilVars>>

\* ---- bounds ----
MaxToggles == 3
MaxRipples == 2
MaxBtnRipples == 1

\* ---- values ----
Null == "<null>"
LabelToLight == "Switch to light mode"
LabelToDark == "Switch to dark mode"

\* Contents the 'theme' slot can hold when the page loads: nothing, the two
\* themes, the empty string and a string the page never writes itself.
StoredValues == {Null, "", "light", "dark", "blue"}
ThemeArgs == {"light", "dark", "blue"}
StorageModes == {"ok", "getThrows", "setThrows"}

\* JavaScript truthiness of a string-or-null value (the || of line 28, the ! of line 137)
Truthy(x) == x # Null /\ x # ""

\* ---- the theme state a handler works on ----
ThemeState == [dataTheme |-> dataTheme, stored |-> stored, currentTheme |-> currentTheme,
               checked |-> checked, ariaLabel |-> ariaLabel, threw |-> FALSE]

Observable(s) == <<s.dataTheme, s.stored, s.currentTheme, s.checked, s.ariaLabel>>

\* getPreferredTheme (lines 44-46)
getPreferredTheme == IF osDark THEN "dark" ELSE "light"

\* variant of updateToggleState that inverts the checkbox instead of setting it
updateToggleState_flip(s) ==
    IF ~togglePresent THEN [s EXCEPT !.threw = TRUE]
    ELSE IF s.currentTheme = "dark"
         THEN [s EXCEPT !.checked = ~s.checked, !.ariaLabel = LabelToLight]
         ELSE [s EXCEPT !.checked = ~s.checked, !.ariaLabel = LabelToDark]

\* updateToggleState (lines 63-71): dereferences darkModeToggle, a TypeError when it is null
updateToggleState(s) ==
    IF ~togglePresent THEN [s EXCEPT !.threw = TRUE]
    ELSE IF s.currentTheme = "dark"
         THEN [s EXCEPT !.checked = TRUE, !.ariaLabel = LabelToLight]
         ELSE [s EXCEPT !.checked = FALSE, !.ariaLabel = LabelToDark]

\* variant of setTheme without the localStorage.setItem of line 54
setTheme_noPersist(s, theme) ==
    LET s1 == [s EXCEPT !.dataTheme = theme, !.threw = FALSE] IN
    IF storageMode # "ok" THEN [s1 EXCEPT !.threw = TRUE]
    ELSE updateToggleState([s1 EXCEPT !.currentTheme = theme])

\* setTheme (lines 52-57)
setTheme(s, theme) ==
    LET s1 == [s EXCEPT !.dataTheme = theme, !.threw = FALSE] IN
    IF storageMode # "ok" THEN [s1 EXCEPT !.threw = TRUE]
    ELSE updateToggleState([s1 EXCEPT !.stored = theme, !.currentTheme = theme])

\* the theme computed by toggleTheme (line 78)
newTheme(cur) == IF cur = "dark" THEN "light" ELSE "dark"

\* toggleTheme (lines 77-83), theme part
toggleTheme(s) == setTheme(s, newTheme(s.currentTheme))

\* variant of the resolution with the operands of || swapped in effect:
\* the OS preference wins whenever it is dark
resolveTheme_osFirst(st) == IF osDark THEN "dark" ELSE IF Truthy(st) THEN st ELSE "light"

\* the constructor's resolution (line 28)
resolveTheme(st) == IF Truthy(st) THEN st ELSE getPreferredTheme

\* variant of the listener without the guard of line 137
osChangeListener_unguarded(s, matches) ==
    setTheme(s, IF matches THEN "dark" ELSE "light")

\* variant of the listener with the guard of line 137 inverted
osChangeListener_inverted(s, matches) ==
    IF Truthy(s.stored) THEN setTheme(s, IF matches THEN "dark" ELSE "light") ELSE s

\* the matchMedia change listener (lines 136-140); matches is e.matches
osChangeListener(s, matches) ==
    IF ~Truthy(s.stored) THEN setTheme(s, IF matches THEN "dark" ELSE "light") ELSE s

Apply(s) ==
    /\ dataTheme' = s.dataTheme
    /\ stored' = s.stored
    /\ currentTheme' = s.currentTheme
    /\ checked' = s.checked
    /\ ariaLabel' = s.ariaLabel

themeVars == <<dataTheme, stored, currentTheme, checked, ariaLabel>>
envVars == <<storageMode, togglePresent>>
animVars == <<labelScale, scaleTimers, ripples, rippleTimers>>
otherVars == <<navbarShadow, btnRipples>>
histVars == <<initialTheme, storedAtLoad, toggles>>

\* ---- utility and carousel state before it is used ----
\* a field holds the number of the card it was filled from, 0 for the empty string
EmptyContent == [image |-> 0, title |-> 0, issuer |-> 0, date |-> 0]

DebIdle ==
    /\ debTimeout = 0
    /\ debPending = {}
    /\ debNextId = 1
    /\ debLog = <<>>
    /\ debLastCall = Null
    /\ debBurstOpen = FALSE

ThrIdle ==
    /\ inThrottle = "undefined"
    /\ thrPending = {}
    /\ thrLog = <<>>
    /\ thrDropped = 0

CertIdle ==
    /\ certReady = FALSE
    /\ certItems = 1
    /\ certIndicators = 0
    /\ certActive = 0
    /\ certSliding = -1
    /\ certCycling = FALSE
    /\ indicatorActive = {}
    /\ toRequested = -1
    /\ indicatorUsed = -1
    /\ modalShown = FALSE
    /\ modalContent = EmptyContent
    /\ cyclingAtShow = FALSE

SwipeIdle ==
    /\ startX = 0
    /\ endX = 0
    /\ isMouseDown = FALSE
    /\ projCalls = <<>>
    /\ swipeThrew = FALSE

UtilIdle == now = 0 /\ DebIdle /\ ThrIdle /\ CertIdle /\ SwipeIdle

Init ==
    /\ UtilIdle
    /\ pc = "load"
    /\ storageMode \in StorageModes
    /\ togglePresent \in BOOLEAN
    /\ osDark \in BOOLEAN
    /\ stored \in StoredValues
    /\ dataTheme = Null
    /\ currentTheme = Null
    /\ checked \in BOOLEAN
    /\ ariaLabel = Null
    /\ labelScale = Null
    /\ scaleTimers = 0
    /\ ripples = 0
    /\ rippleTimers = 0
    /\ componentsInitialized = FALSE
    /\ navbarShadow = FALSE
    /\ btnRipples = 0
    /\ initialTheme = Null
    /\ storedAtLoad = stored
    /\ toggles = 0
    /\ lastEvent = "none"

\* DOMContentLoaded handler (lines 904-957) with new ThemeManager() (lines 27-30, 128-141)
DOMContentLoaded ==
    /\ pc = "load"
    /\ lastEvent' = "load"
    /\ UNCHANGED <<envVars, utilVars, osDark, animVars, otherVars, storedAtLoad, toggles>>
    /\ IF storageMode = "getThrows"
       THEN \* getStoredTheme throws, the catch of line 954 ends the handler
            /\ pc' = "failed"
            /\ componentsInitialized' = FALSE
            /\ UNCHANGED <<themeVars, initialTheme>>
       ELSE LET resolved == resolveTheme(stored)
                s == setTheme([ThemeState EXCEPT !.currentTheme = resolved], resolved)
            IN /\ initialTheme' = resolved
               /\ Apply(s)
               /\ pc' = IF s.threw THEN "failed" ELSE "ready"
               /\ componentsInitialized' = ~s.threw

\* the user operates the toggle: the browser flips checked, then fires 'change' (line 132)
ToggleChange ==
    /\ pc = "ready"
    /\ toggles < MaxToggles
    /\ ripples < MaxRipples
    /\ LET s == toggleTheme([ThemeState EXCEPT !.checked = ~checked]) IN
       /\ Apply(s)
       /\ IF s.threw
          THEN UNCHANGED animVars
          ELSE \* addToggleAnimation (lines 89-122)
               /\ labelScale' = "scale(0.95)"
               /\ scaleTimers' = scaleTimers + 1
               /\ ripples' = ripples + 1
               /\ rippleTimers' = rippleTimers + 1
    /\ toggles' = toggles + 1
    /\ lastEvent' = "toggle"
    /\ UNCHANGED <<pc, envVars, utilVars, osDark, componentsInitialized, otherVars, initialTheme, storedAtLoad>>

\* variant of the shortcut without the dispatchEvent of line 747: assigning
\* checked from script fires no 'change' event
CtrlD_noDispatch ==
    /\ pc = "ready"
    /\ componentsInitialized
    /\ toggles < MaxToggles
    /\ ripples < MaxRipples
    /\ checked' = ~checked
    /\ lastEvent' = "ctrlD"
    /\ UNCHANGED <<pc, envVars, utilVars, osDark, dataTheme, stored, currentTheme, ariaLabel, animVars,
                   componentsInitialized, otherVars, histVars>>

\* Ctrl/Cmd+D (lines 742-748): flips checked and dispatches 'change' synchronously
CtrlD ==
    /\ pc = "ready"
    /\ componentsInitialized
    /\ toggles < MaxToggles
    /\ ripples < MaxRipples
    /\ LET s == toggleTheme([ThemeState EXCEPT !.checked = ~checked]) IN
       /\ Apply(s)
       /\ IF s.threw
          THEN UNCHANGED animVars
          ELSE /\ labelScale' = "scale(0.95)"
               /\ scaleTimers' = scaleTimers + 1
               /\ ripples' = ripples + 1
               /\ rippleTimers' = rippleTimers + 1
    /\ toggles' = toggles + 1
    /\ lastEvent' = "ctrlD"
    /\ UNCHANGED <<pc, envVars, utilVars, osDark, componentsInitialized, otherVars, initialTheme, storedAtLoad>>

\* the OS colour scheme changes; the listener of lines 136-140 runs when registered
OSChange ==
    /\ pc # "load"
    /\ osDark' = ~osDark
    /\ IF pc = "ready"
       THEN Apply(osChangeListener(ThemeState, ~osDark))
       ELSE UNCHANGED themeVars
    /\ lastEvent' = "osChange"
    /\ UNCHANGED <<pc, envVars, utilVars, animVars, componentsInitialized, otherVars, histVars>>

\* the user operates the toggle of a page whose initialization failed: no listener
ToggleNoListener ==
    /\ pc = "failed"
    /\ togglePresent
    /\ checked' = ~checked
    /\ lastEvent' = "toggleNoListener"
    /\ UNCHANGED <<pc, envVars, utilVars, osDark, dataTheme, stored, currentTheme, ariaLabel, animVars,
                   componentsInitialized, otherVars, histVars>>

\* the 150ms timer of addToggleAnimation (lines 94-96)
ScaleTimer ==
    /\ scaleTimers > 0
    /\ labelScale' = "scale(1)"
    /\ scaleTimers' = scaleTimers - 1
    /\ lastEvent' = "scaleTimer"
    /\ UNCHANGED <<pc, envVars, utilVars, osDark, themeVars, ripples, rippleTimers, componentsInitialized,
                   otherVars, histVars>>

\* variant of the 600ms timer whose callback no longer reaches its ripple
\* element (the element is not removed)
RippleTimer_noRemove ==
    /\ rippleTimers > scaleTimers
    /\ rippleTimers' = rippleTimers - 1
    /\ ripples' = ripples
    /\ lastEvent' = "rippleTimer"
    /\ UNCHANGED <<pc, envVars, utilVars, osDark, themeVars, labelScale, scaleTimers, componentsInitialized,
                   otherVars, histVars>>

\* the 600ms timer of addToggleAnimation (lines 119-121), removing the ripple
\* its closure holds; a toggle's 150ms timer fires before its 600ms timer,
\* and timers of one delay fire in order
RippleTimer ==
    /\ rippleTimers > scaleTimers
    /\ rippleTimers' = rippleTimers - 1
    /\ ripples' = ripples - 1
    /\ lastEvent' = "rippleTimer"
    /\ UNCHANGED <<pc, envVars, utilVars, osDark, themeVars, labelScale, scaleTimers, componentsInitialized,
                   otherVars, histVars>>

\* NavbarEffects.handleScroll (lines 211-225); deep is scrollTop > 50
HandleScroll ==
    /\ componentsInitialized
    /\ \E deep \in BOOLEAN : navbarShadow' = deep
    /\ lastEvent' = "scroll"
    /\ UNCHANGED <<pc, envVars, utilVars, osDark, themeVars, animVars, componentsInitialized, btnRipples, histVars>>

\* ProjectCardEffects.createRippleEffect (lines 555-587)
ButtonClick ==
    /\ componentsInitialized
    /\ btnRipples < MaxBtnRipples
    /\ btnRipples' = btnRipples + 1
    /\ lastEvent' = "btnClick"
    /\ UNCHANGED <<pc, envVars, utilVars, osDark, themeVars, animVars, componentsInitialized, navbarShadow, histVars>>

\* the 600ms timer of createRippleEffect (lines 584-586)
ButtonRippleTimer ==
    /\ btnRipples > 0
    /\ btnRipples' = btnRipples - 1
    /\ lastEvent' = "btnRippleTimer"
    /\ UNCHANGED <<pc, envVars, utilVars, osDark, themeVars, animVars, componentsInitialized, navbarShadow, histVars>>

Next ==
    \/ DOMContentLoaded
    \/ ToggleChange
    \/ CtrlD
    \/ OSChange
    \/ ToggleNoListener
    \/ ScaleTimer
    \/ RippleTimer
    \/ HandleScroll
    \/ ButtonClick
    \/ ButtonRippleTimer

Spec == Init /\ [][Next]_vars

\* setTimeout callbacks are always run eventually by the browser's event loop
FairSpec == Spec /\ WF_vars(ScaleTimer) /\ WF_vars(RippleTimer)

TypeOK ==
    /\ pc \in {"load", "ready", "failed"}
    /\ stored \in StoredValues
    /\ toggles \in 0..MaxToggles
    /\ ripples \in 0..MaxRipples
    /\ rippleTimers \in 0..MaxRipples
    /\ scaleTimers \in 0..rippleTimers

\* ======================= utility functions =======================

\* ---- bounds ----
MaxTime == 600
MaxCalls == 3

\* the delay of the resize debounce (line 895) and a limit for throttle (line 975)
DebounceWait == 250
ThrottleLimit == 100
TickSteps == {50, 250}

\* the page state while a utility or a carousel is studied on its own
PageIdle ==
    /\ pc = "ready"
    /\ storageMode = "ok"
    /\ togglePresent = TRUE
    /\ osDark = FALSE
    /\ stored = "light"
    /\ dataTheme = "light"
    /\ currentTheme = "light"
    /\ checked = FALSE
    /\ ariaLabel = LabelToDark
    /\ labelScale = Null
    /\ scaleTimers = 0
    /\ ripples = 0
    /\ rippleTimers = 0
    /\ componentsInitialized = TRUE
    /\ navbarShadow = FALSE
    /\ btnRipples = 0
    /\ initialTheme = "light"
    /\ storedAtLoad = Null
    /\ toggles = 0
    /\ lastEvent = "none"

\* time passes
Tick ==
    /\ now < MaxTime
    /\ \E d \in TickSteps : now' = IF now + d > MaxTime THEN MaxTime ELSE now + d
    /\ lastEvent' = "tick"
    /\ UNCHANGED <<pageVars, debVars, thrVars, certVars, swipeVars>>

\* clearTimeout(id): cancels the pending timer with this id, if any
clearTimeout(pending, id) == {tm \in pending : tm.id # id}

\* variant of executedFunction without the clearTimeout of line 969
DebCall_noClear ==
    /\ debNextId <= MaxCalls
    /\ now + DebounceWait <= MaxTime
    /\ debPending' = debPending \cup {[id |-> debNextId, args |-> debNextId, due |-> now + DebounceWait]}
    /\ debTimeout' = debNextId
    /\ debNextId' = debNextId + 1
    /\ debLastCall' = [args |-> debNextId, at |-> now]
    /\ debBurstOpen' = TRUE
    /\ debLog' = debLog
    /\ lastEvent' = "debCall"
    /\ UNCHANGED <<pageVars, now, thrVars, certVars, swipeVars>>

\* executedFunction (lines 964-971), the wrapper returned by debounce(func, wait);
\* the arguments of a call are modelled by the call's number
DebCall ==
    /\ debNextId <= MaxCalls
    /\ now + DebounceWait <= MaxTime
    /\ debPending' = clearTimeout(debPending, debTimeout)
                        \cup {[id |-> debNextId, args |-> debNextId, due |-> now + DebounceWait]}
    /\ debTimeout' = debNextId
    /\ debNextId' = debNextId + 1
    /\ debLastCall' = [args |-> debNextId, at |-> now]
    /\ debBurstOpen' = TRUE
    /\ debLog' = debLog
    /\ lastEvent' = "debCall"
    /\ UNCHANGED <<pageVars, now, thrVars, certVars, swipeVars>>

\* later (lines 965-968), run by a timer that is due
DebFire ==
    /\ \E tm \in debPending :
        /\ tm.due <= now
        /\ debPending' = clearTimeout(debPending \ {tm}, debTimeout)
        /\ debLog' = Append(debLog, [args |-> tm.args, at |-> now])
    /\ debBurstOpen' = FALSE
    /\ lastEvent' = "debFire"
    /\ UNCHANGED <<pageVars, now, debTimeout, debNextId, debLastCall, thrVars, certVars, swipeVars>>

DebounceInit == PageIdle /\ UtilIdle

DebounceNext == DebCall \/ DebFire \/ Tick

DebounceSpec == DebounceInit /\ [][DebounceNext]_vars

\* time advances and due timers are run by the event loop
DebounceFairSpec == DebounceSpec /\ WF_vars(Tick) /\ WF_vars(DebFire)

\* variant of the throttled function that never sets inThrottle (line 982)
ThrCall_noWindow ==
    /\ Len(thrLog) + thrDropped < MaxCalls
    /\ now + ThrottleLimit <= MaxTime
    /\ thrLog' = Append(thrLog, now)
    /\ inThrottle' = inThrottle
    /\ thrPending' = thrPending \cup {now + ThrottleLimit}
    /\ thrDropped' = thrDropped
    /\ lastEvent' = "thrCall"
    /\ UNCHANGED <<pageVars, now, debVars, certVars, swipeVars>>

\* the function returned by throttle(func, limit) (lines 977-985)
ThrCall ==
    /\ Len(thrLog) + thrDropped < MaxCalls
    /\ now + ThrottleLimit <= MaxTime
    /\ IF inThrottle # "true"
       THEN /\ thrLog' = Append(thrLog, now)
            /\ inThrottle' = "true"
            /\ thrPending' = thrPending \cup {now + ThrottleLimit}
            /\ thrDropped' = thrDropped
       ELSE /\ thrDropped' = thrDropped + 1
            /\ UNCHANGED <<thrLog, inThrottle, thrPending>>
    /\ lastEvent' = "thrCall"
    /\ UNCHANGED <<pageVars, now, debVars, certVars, swipeVars>>

\* the timer callback of line 983
ThrTimer ==
    /\ \E due \in thrPending :
        /\ due <= now
        /\ thrPending' = thrPending \ {due}
    /\ inThrottle' = "false"
    /\ lastEvent' = "thrTimer"
    /\ UNCHANGED <<pageVars, now, thrLog, thrDropped, debVars, certVars, swipeVars>>

ThrottleInit == PageIdle /\ UtilIdle

ThrottleNext == ThrCall \/ ThrTimer \/ Tick

ThrottleSpec == ThrottleInit /\ [][ThrottleNext]_vars

ThrottleFairSpec == ThrottleSpec /\ WF_vars(Tick) /\ WF_vars(ThrTimer)

\* ======================= certificates carousel =======================

\* ---- bounds ----
MaxItems == 3
MaxIndicators == 3
MaxCards == 2

Fields == {"image", "title", "issuer", "date"}

\* bootstrap.Carousel next()/prev()/to(): the index a transition is started
\* to. A request made during a transition, for the active item or for an
\* index without item starts none; the interval is left as it was.
\* (Bootstrap defers a to() made during a transition; the deferred slide is a
\* slide the same handlers can start once the transition has ended.)
bsSlide(target) ==
    IF certSliding # -1 \/ target = certActive \/ target < 0 \/ target >= certItems
    THEN certSliding
    ELSE target

\* wrap: true (line 315)
nextIndex == (certActive + 1) % certItems
prevIndex == (certActive + certItems - 1) % certItems

\* CertificateCarouselEffects.init (lines 308-336) on a page that has the
\* carousel, the cards and the modal; the markup marks either no indicator or
\* the active item's indicator as active
CertSetup ==
    /\ ~certReady
    /\ certReady' = TRUE
    /\ certCycling' = TRUE
    /\ indicatorActive' = IF certIndicators > 0 /\ certActive < certIndicators
                          THEN indicatorActive \cup {certActive}
                          ELSE indicatorActive
    /\ lastEvent' = "certSetup"
    /\ UNCHANGED <<pageVars, now, debVars, thrVars, swipeVars, certItems, certIndicators, certActive,
                   certSliding, toRequested, indicatorUsed, modalShown, modalContent, cyclingAtShow>>

\* the modal's content after openCertificateModal for card c whose data-
\* attributes are those of has (lines 446-467)
fillModal(content, c, has) ==
    [f \in Fields |-> IF f \in has THEN c ELSE content[f]]

\* variant of openCertificateModal without the pause of lines 441-443
CardActivate_noPause ==
    /\ certReady
    /\ \E c \in 1..MaxCards, has \in SUBSET Fields :
        modalContent' = fillModal(modalContent, c, has)
    /\ certCycling' = certCycling
    /\ cyclingAtShow' = certCycling
    /\ modalShown' = TRUE
    /\ lastEvent' = "cardActivate"
    /\ UNCHANGED <<pageVars, now, debVars, thrVars, swipeVars, certReady, certItems, certIndicators,
                   certActive, certSliding, indicatorActive, toRequested, indicatorUsed>>

\* openCertificateModal (lines 434-472), reached by a click or by Enter/Space
\* on a card (lines 475-485)
CardActivate ==
    /\ certReady
    /\ \E c \in 1..MaxCards, has \in SUBSET Fields :
        modalContent' = fillModal(modalContent, c, has)
    /\ certCycling' = FALSE
    /\ cyclingAtShow' = FALSE
    /\ modalShown' = TRUE
    /\ lastEvent' = "cardActivate"
    /\ UNCHANGED <<pageVars, now, debVars, thrVars, swipeVars, certReady, certItems, certIndicators,
                   certActive, certSliding, indicatorActive, toRequested, indicatorUsed>>

\* the hidden.bs.modal listener (lines 498-508), after the user closed the modal
ModalHidden ==
    /\ certReady
    /\ modalShown
    /\ modalShown' = FALSE
    /\ modalContent' = EmptyContent
    /\ certCycling' = TRUE
    /\ lastEvent' = "modalHidden"
    /\ UNCHANGED <<pageVars, now, debVars, thrVars, swipeVars, certReady, certItems, certIndicators,
                   certActive, certSliding, indicatorActive, toRequested, indicatorUsed, cyclingAtShow>>

\* the document keydown listener of addKeyboardNavigation (lines 338-353)
ArrowKey ==
    /\ certReady
    /\ \E target \in {prevIndex, nextIndex} : certSliding' = bsSlide(target)
    /\ lastEvent' = "arrowKey"
    /\ UNCHANGED <<pageVars, now, debVars, thrVars, swipeVars, certReady, certItems, certIndicators,
                   certActive, certCycling, indicatorActive, toRequested, indicatorUsed, modalShown,
                   modalContent, cyclingAtShow>>

\* the carousel's interval (interval: 5000, line 314) advances it while it cycles
AutoAdvance ==
    /\ certReady
    /\ certCycling
    /\ certSliding = -1
    /\ certItems > 1
    /\ certSliding' = bsSlide(nextIndex)
    /\ lastEvent' = "autoAdvance"
    /\ UNCHANGED <<pageVars, now, debVars, thrVars, swipeVars, certReady, certItems, certIndicators,
                   certActive, certCycling, indicatorActive, toRequested, indicatorUsed, modalShown,
                   modalContent, cyclingAtShow>>

\* the click and Enter/Space listeners of an indicator (lines 378-392)
IndicatorActivate ==
    /\ certReady
    /\ \E i \in 0..(certIndicators - 1) :
        /\ indicatorUsed' = i
        /\ toRequested' = i
        /\ certSliding' = bsSlide(i)
    /\ lastEvent' = "indicator"
    /\ UNCHANGED <<pageVars, now, debVars, thrVars, swipeVars, certReady, certItems, certIndicators,
                   certActive, certCycling, indicatorActive, modalShown, modalContent, cyclingAtShow>>

\* variant of the slid listener without the removal of line 400
Slid_noRemove ==
    /\ certReady
    /\ certSliding # -1
    /\ certActive' = certSliding
    /\ certSliding' = -1
    /\ indicatorActive' = IF certIndicators = 0 THEN indicatorActive
                          ELSE IF certSliding < certIndicators THEN indicatorActive \cup {certSliding}
                          ELSE indicatorActive
    /\ lastEvent' = "slid"
    /\ UNCHANGED <<pageVars, now, debVars, thrVars, swipeVars, certReady, certItems, certIndicators,
                   certCycling, toRequested, indicatorUsed, modalShown, modalContent, cyclingAtShow>>

\* the transition ends: the target item is the active one and slid.bs.carousel
\* runs the listener of lines 396-406 (registered when indicators exist)
Slid ==
    /\ certReady
    /\ certSliding # -1
    /\ certActive' = certSliding
    /\ certSliding' = -1
    /\ indicatorActive' = IF certIndicators = 0 THEN indicatorActive
                          ELSE IF certSliding < certIndicators THEN {certSliding}
                          ELSE {}
    /\ lastEvent' = "slid"
    /\ UNCHANGED <<pageVars, now, debVars, thrVars, swipeVars, certReady, certItems, certIndicators,
                   certCycling, toRequested, indicatorUsed, modalShown, modalContent, cyclingAtShow>>

CertInit ==
    /\ PageIdle
    /\ now = 0
    /\ DebIdle
    /\ ThrIdle
    /\ SwipeIdle
    /\ certReady = FALSE
    /\ certItems \in 1..MaxItems
    /\ certIndicators \in 0..MaxIndicators
    /\ certActive \in 0..(certItems - 1)
    /\ certSliding = -1
    /\ certCycling = FALSE
    /\ indicatorActive \in {{}, {certActive} \cap (0..(certIndicators - 1))}
    /\ toRequested = -1
    /\ indicatorUsed = -1
    /\ modalShown = FALSE
    /\ modalContent = EmptyContent
    /\ cyclingAtShow = FALSE

CertNext ==
    \/ CertSetup
    \/ CardActivate
    \/ ModalHidden
    \/ ArrowKey
    \/ AutoAdvance
    \/ IndicatorActivate
    \/ Slid

CertSpec == CertInit /\ [][CertNext]_vars

\* ======================= projects carousel: swipe =======================

\* const threshold (line 835)
SwipeThreshold == 50

\* horizontal positions a touch or the mouse can report
Xs == {0, 50, 101, 200}

\* handleSwipe (lines 834-847). Line 836 reads startX and endX, which are
\* block-scoped locals of addSwipeSupport (lines 801-802) and not in scope of
\* this method: evaluating startX - endX raises a ReferenceError, and the
\* calls of lines 841 and 844 are never reached.
handleSwipe == [threw |-> TRUE, call |-> "none"]

\* the effect of a handleSwipe() call on the carousel and on the history
ApplySwipe(r) ==
    /\ swipeThrew' = r.threw
    /\ projCalls' = IF r.call = "none" THEN projCalls ELSE Append(projCalls, r.call)

\* touchstart listener (lines 804-806)
TouchStart ==
    /\ \E x \in Xs : startX' = x
    /\ lastEvent' = "touchStart"
    /\ UNCHANGED <<pageVars, now, debVars, thrVars, certVars, endX, isMouseDown, projCalls, swipeThrew>>

\* touchend listener (lines 808-811)
TouchEnd ==
    /\ \E x \in Xs : endX' = x
    /\ ApplySwipe(handleSwipe)
    /\ lastEvent' = "touchEnd"
    /\ UNCHANGED <<pageVars, now, debVars, thrVars, certVars, startX, isMouseDown>>

\* mousedown listener (lines 816-819)
MouseDown ==
    /\ isMouseDown' = TRUE
    /\ \E x \in Xs : startX' = x
    /\ lastEvent' = "mouseDown"
    /\ UNCHANGED <<pageVars, now, debVars, thrVars, certVars, endX, projCalls, swipeThrew>>

\* mouseup listener (lines 821-827); line 825 is reached only when
\* handleSwipe returns
MouseUp ==
    /\ IF isMouseDown
       THEN /\ \E x \in Xs : endX' = x
            /\ ApplySwipe(handleSwipe)
            /\ isMouseDown' = IF handleSwipe.threw THEN isMouseDown ELSE FALSE
       ELSE UNCHANGED <<endX, isMouseDown, projCalls, swipeThrew>>
    /\ lastEvent' = "mouseUp"
    /\ UNCHANGED <<pageVars, now, debVars, thrVars, certVars, startX>>

\* mouseleave listener (lines 829-831)
MouseLeave ==
    /\ isMouseDown' = FALSE
    /\ lastEvent' = "mouseLeave"
    /\ UNCHANGED <<pageVars, now, debVars, thrVars, certVars, startX, endX, projCalls, swipeThrew>>

SwipeInit == PageIdle /\ UtilIdle

SwipeNext == TouchStart \/ TouchEnd \/ MouseDown \/ MouseUp \/ MouseLeave

SwipeSpec == SwipeInit /\ [][SwipeNext]_vars

\* ======================= claims =======================

Opposite(t) == IF t = "dark" THEN "light" ELSE "dark"
OsTheme(d) == IF d THEN "dark" ELSE "light"

\* C1: after a successful construction, the data-theme attribute, the stored
\* entry and currentTheme hold the same value, the toggle is checked exactly
\* when that value is 'dark', and the aria-label names the other mode.
C1_SurfacesAgree ==
    pc = "ready" =>
        /\ dataTheme = currentTheme
        /\ stored = currentTheme
        /\ checked = (currentTheme = "dark")
        /\ ariaLabel = (IF currentTheme = "dark" THEN LabelToLight ELSE LabelToDark)

C1_Witness ==
    /\ pc = "ready"
    /\ lastEvent = "ctrlD"
    /\ toggles = 2
    /\ currentTheme = "dark"
    /\ checked
    /\ stored = "dark"

\* C2 (as claimed): after n toggleTheme() calls the theme is the theme resolved
\* at construction when n is even and its opposite when n is odd.
C2_Alternates ==
    pc = "ready" =>
        /\ (toggles % 2 = 0 => currentTheme = initialTheme)
        /\ (toggles % 2 = 1 => currentTheme = Opposite(initialTheme))

\* C3 (as claimed): the theme resolved at load is the persisted value whenever
\* an entry exists, and otherwise the OS preference ('light' unless the OS
\* prefers dark).
C3_PersistedWins ==
    (lastEvent = "load" /\ storageMode # "getThrows") =>
        /\ (storedAtLoad # Null => currentTheme = storedAtLoad)
        /\ (storedAtLoad = Null => currentTheme = OsTheme(osDark))

\* C3 (amended): the theme resolved at load is the persisted value whenever a
\* non-empty entry exists; when the entry is absent or the empty string it is
\* the OS preference ('dark' if the OS prefers dark, 'light' otherwise).
C3_NonEmptyPersistedWins ==
    (lastEvent = "load" /\ storageMode # "getThrows") =>
        /\ (storedAtLoad \notin {Null, ""} => currentTheme = storedAtLoad /\ initialTheme = storedAtLoad)
        /\ (storedAtLoad \in {Null, ""} /\ osDark => currentTheme = "dark" /\ initialTheme = "dark")
        /\ (storedAtLoad \in {Null, ""} /\ ~osDark => currentTheme = "light" /\ initialTheme = "light")

C3_Witness ==
    /\ lastEvent = "load"
    /\ pc = "ready"
    /\ storedAtLoad = "dark"
    /\ ~osDark
    /\ currentTheme = "dark"

\* C4 (as claimed): before any toggle, on a page loaded with no persisted
\* theme, an OS colour-scheme change sets the current theme, the data-theme
\* attribute and the toggle state to the new OS value.
C4_OsChangeApplies ==
    [][(pc = "ready" /\ toggles = 0 /\ storedAtLoad = Null /\ lastEvent' = "osChange") =>
          /\ currentTheme' = OsTheme(osDark')
          /\ dataTheme' = OsTheme(osDark')
          /\ checked' = osDark']_vars

\* C5: once toggleTheme() has run, an OS colour-scheme change event leaves the
\* current theme, the attribute, the stored value and the toggle state unchanged.
C5_OsChangeIgnoredAfterToggle ==
    [][(pc = "ready" /\ toggles >= 1 /\ lastEvent' = "osChange") => UNCHANGED themeVars]_vars

C5_Witness ==
    /\ pc = "ready"
    /\ toggles >= 1
    /\ lastEvent = "osChange"
    /\ currentTheme # OsTheme(osDark)

\* C6: setTheme(v) called twice in a row leaves the attribute, the stored
\* value, currentTheme, the checked state and the aria-label as one call does.
C6_SetThemeIdempotent ==
    pc # "load" =>
        \A v \in ThemeArgs :
            Observable(setTheme(setTheme(ThemeState, v), v)) = Observable(setTheme(ThemeState, v))

C6_Witness ==
    /\ pc = "ready"
    /\ toggles >= 1
    /\ \E v \in ThemeArgs : Observable(setTheme(ThemeState, v)) # Observable(ThemeState)

\* C7 (as claimed): when storage access throws, the page still ends up
\* initialized: the OS preference is applied to the attribute and the toggle,
\* and the remaining components are constructed.
C7_StorageFailureTolerated ==
    (pc # "load" /\ lastEvent = "load" /\ storageMode # "ok" /\ togglePresent) =>
        /\ pc = "ready"
        /\ componentsInitialized
        /\ (storageMode = "getThrows" => dataTheme = OsTheme(osDark))
        /\ checked = (dataTheme = "dark")

\* C8 (as claimed): without the toggle widget, construction still sets the
\* attribute, the stored value and currentTheme and raises no exception.
C8_MissingToggleTolerated ==
    (pc # "load" /\ storageMode = "ok" /\ ~togglePresent) =>
        /\ dataTheme = currentTheme
        /\ stored = currentTheme
        /\ currentTheme = initialTheme
        /\ pc = "ready"

\* C9 (as claimed): after construction the persisted entry is absent, 'light'
\* or 'dark', whatever the slot held when the page was loaded.
C9_StoredIsTheme ==
    pc = "ready" => stored \in {Null, "light", "dark"}

\* C10: after initialization the theme state changes only in a step that is a
\* toggle (widget or shortcut) or an OS-change event taken while no persisted
\* value exists; timers, scroll and ripple handlers leave it unchanged.
C10_OnlyToggleOrUnpersistedOsChange ==
    [][(pc = "ready" /\ themeVars' # themeVars) =>
          \/ lastEvent' \in {"toggle", "ctrlD"}
          \/ (lastEvent' = "osChange" /\ ~Truthy(stored))]_vars

C10_Witness ==
    /\ pc = "ready"
    /\ toggles = 2
    /\ lastEvent = "rippleTimer"
    /\ navbarShadow
    /\ btnRipples = 1
    /\ currentTheme = initialTheme

\* C11: every ripple appended by a toggle is removed by its own timer: when no
\* animation timer is pending no ripple is attached and the label's scale is
\* back to 1, and an attached ripple always leads to that state.
C11_RipplesRemoved ==
    /\ []((toggles >= 1 /\ scaleTimers = 0 /\ rippleTimers = 0) =>
            (ripples = 0 /\ labelScale = "scale(1)"))
    /\ ((ripples > 0) ~> (ripples = 0 /\ rippleTimers = 0 /\ labelScale = "scale(1)"))

C11_Witness ==
    /\ pc = "ready"
    /\ toggles = 3
    /\ lastEvent = "rippleTimer"
    /\ ripples = 0
    /\ rippleTimers = 0
    /\ labelScale = "scale(1)"

\* the theme state after the user operates the toggle control once
UserToggleResult == toggleTheme([ThemeState EXCEPT !.checked = ~checked])

\* C12: a Ctrl/Cmd+D press flips the theme exactly once and leaves the
\* attribute, stored value, checked state and aria-label as one operation of
\* the toggle control does.
C12_ShortcutIsOneToggle ==
    [][(pc = "ready" /\ lastEvent' = "ctrlD") =>
          /\ currentTheme' # currentTheme
          /\ currentTheme' = Opposite(currentTheme)
          /\ toggles' = toggles + 1
          /\ <<dataTheme', stored', currentTheme', checked', ariaLabel'>> = Observable(UserToggleResult)]_vars

C12_Witness ==
    /\ pc = "ready"
    /\ lastEvent = "ctrlD"
    /\ toggles = 1
    /\ initialTheme = "dark"
    /\ currentTheme = "light"
    /\ ~checked

C14_Debounce ==
    /\ [](Cardinality(debPending) <= 1)
    /\ [][lastEvent' = "debCall" =>
            /\ debLog' = debLog
            /\ debPending \cap debPending' = {}
            /\ Cardinality(debPending') = 1]_vars
    /\ [][debLog' # debLog =>
            /\ lastEvent' = "debFire"
            /\ debBurstOpen
            /\ Len(debLog') = Len(debLog) + 1
            /\ debLog'[Len(debLog')].args = debLastCall.args
            /\ now >= debLastCall.at + DebounceWait
            /\ debPending' = {}]_vars
    /\ (debBurstOpen ~> ~debBurstOpen)

C14_Witness ==
    /\ Len(debLog) = 2
    /\ debLog[1].args = 2
    /\ debLog[2].args = 3
    /\ debNextId = 4
    /\ debPending = {}

\* C15: for throttle(func, limit): a call outside the window runs func at once
\* and opens a window of length limit, a call inside the window is dropped and
\* never run by the timer, two runs of func are at least limit apart, and an
\* open window always closes.
C15_Throttle ==
    /\ [](\A i \in 1..(Len(thrLog) - 1) : thrLog[i + 1] - thrLog[i] >= ThrottleLimit)
    /\ [][lastEvent' = "thrCall" =>
            IF inThrottle # "true"
            THEN /\ thrLog' = Append(thrLog, now)
                 /\ inThrottle' = "true"
                 /\ thrPending' = {now + ThrottleLimit}
            ELSE /\ thrLog' = thrLog
                 /\ thrPending' = thrPending]_vars
    /\ [][lastEvent' = "thrTimer" => thrLog' = thrLog /\ now >= thrLog[Len(thrLog)] + ThrottleLimit]_vars
    /\ ((inThrottle = "true") ~> (inThrottle = "false"))

C15_Witness ==
    /\ Len(thrLog) = 2
    /\ thrDropped = 1
    /\ inThrottle = "false"
    /\ thrLog[2] - thrLog[1] >= ThrottleLimit

\* C16: activating a certificate card pauses the carousel before the modal is
\* shown, the carousel does not cycle while the modal is shown (arrow keys and
\* further activations included), and the hidden event clears image, title,
\* issuer and date and makes the carousel cycle again.
C16_ModalPausesCarousel ==
    /\ [](modalShown => ~certCycling)
    /\ [][lastEvent' = "cardActivate" => (modalShown' /\ ~certCycling' /\ ~cyclingAtShow')]_vars
    /\ [][lastEvent' = "modalHidden" =>
            (~modalShown' /\ certCycling' /\ \A f \in Fields : modalContent'[f] = 0)]_vars

C16_Witness ==
    /\ modalShown
    /\ lastEvent = "arrowKey"
    /\ certSliding # -1
    /\ ~certCycling
    /\ modalContent["image"] = 1
    /\ modalContent["title"] = 2

C17_SwipeMovesCarousel ==
    [][(lastEvent' = "touchEnd" \/ (lastEvent' = "mouseUp" /\ isMouseDown)) =>
          LET diff == startX - endX' IN
          /\ ~swipeThrew'
          /\ (diff > SwipeThreshold => projCalls' = Append(projCalls, "next"))
          /\ (diff < -SwipeThreshold => projCalls' = Append(projCalls, "prev"))
          /\ ((diff <= SwipeThreshold /\ diff >= -SwipeThreshold) => projCalls' = projCalls)]_vars
====
